---- MODULE Spec2Model ----
(***************************************************************************)
(* Model of android::pdx::uds::ClientChannelFactory                        *)
(* (libs/vr/libpdx_uds/client_channel_factory.cpp): endpoint path          *)
(* resolution and the Connect retry / timeout / handshake sequence.        *)
(*                                                                         *)
(* Time is counted in ticks of the steady clock, TicksPerMs ticks to the   *)
(* millisecond, so that duration_cast<milliseconds> really truncates.      *)
(* Strings are sequences of one-character strings.  errno values are       *)
(* represented by their names.                                             *)
(***************************************************************************)
EXTENDS Integers, Sequences, FiniteSets, TLC

\* ---------------------------------------------------------------- bounds
MaxNameLen == 1        \* longest enumerated short endpoint name
MaxFds == 1            \* most descriptors carried by a handshake response
MaxConnects == 7       \* most connect(2) results classified in one call
MaxEintr == 1          \* most interruptions of connect(2) in one call
TicksPerMs == 2        \* clock resolution of the model
MaxLate == 2           \* most clock ticks lost in blocking calls in one call

\* ------------------------------------------------------ program constants
SunPathSize == 108     \* sizeof(sockaddr_un::sun_path)
InitMaxEaccess == 5    \* int max_eaccess = 5
SleepMs == 100         \* sleep_for(100ms)

\* ------------------------------------------------------------- utilities
Chars == {"/", "a"}

RECURSIVE Repeat(_, _)
Repeat(c, n) == IF n = 0 THEN <<>> ELSE <<c>> \o Repeat(c, n - 1)

SeqsUpTo(S, n) == UNION {[1..k -> S] : k \in 0..n}

\* duration_cast<milliseconds>(d).count(): integer division truncating
\* toward zero.
DurationCastMs(ticks) ==
  IF ticks >= 0 THEN ticks \div TicksPerMs ELSE -((-ticks) \div TicksPerMs)

\* strncpy(dst, src, n); dst[n - 1] = '\0'; read back as a C string.
Strncpy(src, n) == IF Len(src) <= n - 1 THEN src ELSE SubSeq(src, 1, n - 1)

\* -------------------------------------------------------- path resolution
GetRootEndpointPath ==
  <<"/", "d", "e", "v", "/", "s", "o", "c", "k", "e", "t", "/", "p", "d", "x">>

GetEndpointPath_NoSeparator(endpoint_path) ==
  IF endpoint_path # <<>>
  THEN IF Head(endpoint_path) = "/"
       THEN endpoint_path
       ELSE GetRootEndpointPath \o endpoint_path
  ELSE <<>>

GetEndpointPath(endpoint_path) ==
  IF endpoint_path # <<>>
  THEN IF Head(endpoint_path) = "/"
       THEN endpoint_path
       ELSE GetRootEndpointPath \o <<"/">> \o endpoint_path
  ELSE <<>>

\* Names handed to the constructor: every short name over Chars, and a
\* name whose resolved path does not fit sockaddr_un::sun_path.
LongRelName == Repeat("a", SunPathSize - Len(GetRootEndpointPath) - 1)
Names == SeqsUpTo(Chars, MaxNameLen) \cup {LongRelName}

\* ------------------------------------------------------------ errno sets
\* errno values socket(2) can leave.
SocketErrnos == {"EMFILE"}
\* Errors WaitForEndpoint can report.
WaitErrnos == {"ETIMEDOUT", "EIO"}
\* errno values connect(2) can leave (EINTR is absorbed by RETRY_EINTR).
ConnectErrnos == {"ECONNREFUSED", "EACCES", "ENOENT", "ENOTDIR", "EPERM"}
\* Errors SendData / ReceiveData can report.
IoErrnos == {"EPIPE", "EIO"}

\* Timeouts handed to Connect, in milliseconds.
Timeouts == {-1, 0, 150}


\* Descriptor numbers.
SocketFdNo == 3
SocketFdOf(c) == SocketFdNo + c - 1
EventFdNo(i) == 10 + i
\* What a read past the end of the descriptor vector can yield.
GarbageFds == {-1, 7}

None == "none"

\* ------------------------------------------- pieces of Connect's control
\* bool use_timeout = (timeout_ms >= 0);
UseTimeout_Always(t) == TRUE

UseTimeout(t) == t >= 0

\* auto time_end = now + std::chrono::milliseconds{timeout_ms};
TimeEnd(n, t) == n + t * TicksPerMs

\* timeout = duration_cast<milliseconds>(time_end - now).count();
RemainingMs_Late(te, n) == DurationCastMs(te - n) + 1

RemainingMs(te, n) == DurationCastMs(te - n)

\* errno == ECONNREFUSED || (errno == EACCES && max_eaccess-- > 0)
RetryAfterSleep_PreDecrement(e, m) ==
  e = "ECONNREFUSED" \/ (e = "EACCES" /\ m - 1 > 0)

RetryAfterSleep_AlsoEnoent(e, m) ==
  e = "ECONNREFUSED" \/ e = "ENOENT" \/ (e = "EACCES" /\ m > 0)

RetryAfterSleep(e, m) == e = "ECONNREFUSED" \/ (e = "EACCES" /\ m > 0)

\* Value of max_eaccess after that condition was evaluated: the
\* post-decrement runs only when the left operand of || is false and
\* errno == EACCES.
MaxEaccessAfter_Shared(e, m) ==
  IF e = "ECONNREFUSED" \/ e = "EACCES" THEN m - 1 ELSE m

MaxEaccessAfter(e, m) ==
  IF e # "ECONNREFUSED" /\ e = "EACCES" THEN m - 1 ELSE m

\* else if (errno != ENOENT && errno != ENOTDIR) return ErrorStatus(errno);
IsPermanent_NoEnotdir(e) == e # "ENOENT"

IsPermanent_OnlyEacces(e) == e = "EACCES"

IsPermanent(e) == e # "ENOENT" /\ e # "ENOTDIR"

\* while (!connected): the loop is left once connected is true.
LoopExits_Always(c) == TRUE

LoopExits_Never(c) == FALSE

LoopExits(c) == c

\* if (ref < 0 || static_cast<size_t>(ref) > response.file_descriptors.size())
RefRejected(ref, size) == ref < 0 \/ ref > size

\* return ErrorStatus(ETIMEDOUT);
TimeoutErrno == "ETIMEDOUT"

\* return ErrorStatus(EIO);
ProtocolErrno_Distinct == "EPROTO"

ProtocolErrno == "EIO"

\* ~LocalHandle(): an open descriptor is closed, anything else is left alone.
Destroy_Leak(h) == h

Destroy(h) == IF h = "open" THEN "closed" ELSE h

\* Number of close(2) calls the destructor makes.
Closes(h) == IF h = "open" /\ Destroy(h) = "closed" THEN 1 ELSE 0

\* ErrorStatus(e) / a successful Status carrying the channel.
ErrorStatus_Generic(e) == [ok |-> FALSE, error |-> "EIO"]

ErrorStatus(e) == [ok |-> FALSE, error |-> e]
OkStatus == [ok |-> TRUE, error |-> None]
\* Values of variables that hold nothing yet.
NoStatus == [ok |-> FALSE, error |-> None]
NoResponse == [ret_code |-> 0, file_descriptors |-> <<>>]
NoWait == [path |-> <<>>, timeout |-> 0]

\* ----------------------------------------------------------------- state
VARIABLES
  name,             \* constructor argument
  endpoint_path_,   \* ClientChannelFactory::endpoint_path_
  timeout_ms,       \* Connect's argument
  pc,               \* position of the Connect call
  clock,            \* steady_clock, in ticks
  socket_fd,        \* LocalHandle socket_fd: none / open / closed / moved
  remote_sun_path,  \* remote.sun_path
  use_timeout, now, time_end, connected, max_eaccess, timeout,
  status,           \* Status<void> status: "ok" or an errno
  err,              \* errno left by the last connect(2)
  response,         \* ResponseHeader<LocalHandle> response
  result,           \* value returned by Connect
  kind,             \* which return statement produced the result
  registry,         \* ChannelManager: sequence of CreateHandle arguments
  wait_arg,         \* arguments of the last WaitForEndpoint call
  connect_addr,     \* address of the last connect(2) call
  hist,             \* call counters
  self,             \* the Connect call that is running: 1 or 2
  other             \* locals of the Connect call that is not running

vars == <<name, endpoint_path_, timeout_ms, pc, clock, socket_fd,
          remote_sun_path, use_timeout, now, time_end, connected,
          max_eaccess, timeout, status, err, response, result, kind,
          registry, wait_arg, connect_addr, hist, self, other>>

factory == <<name, endpoint_path_>>
threads == <<self, other>>
locals == <<timeout_ms, remote_sun_path, use_timeout, time_end>>

Hist0 == [sockets |-> 0, closes |-> 0, waits |-> 0, connects |-> 0,
          eintrs |-> 0, sleeps |-> 0, refused |-> 0, eacces |-> 0,
          sends |-> 0, recvs |-> 0, indexed |-> 0, oob |-> 0, late |-> 0]

Bump(h, f) == [h EXCEPT ![f] = @ + 1]
Late(h, d) == [h EXCEPT !.late = @ + d]

\* Time a blocking call can take beyond its minimum, in ticks.
Elapsed == IF hist.late < MaxLate THEN {0, 1} ELSE {0}

\* The arguments, locals and return value of the running Connect call.
CallState ==
  [timeout_ms |-> timeout_ms, pc |-> pc, socket_fd |-> socket_fd,
   remote_sun_path |-> remote_sun_path, use_timeout |-> use_timeout,
   now |-> now, time_end |-> time_end, connected |-> connected,
   max_eaccess |-> max_eaccess, timeout |-> timeout, status |-> status,
   err |-> err, response |-> response, result |-> result, kind |-> kind,
   wait_arg |-> wait_arg, connect_addr |-> connect_addr, hist |-> hist]

\* The same for a call that has not begun.
CallState0 ==
  [timeout_ms |-> 0, pc |-> "start", socket_fd |-> "none",
   remote_sun_path |-> <<>>, use_timeout |-> FALSE, now |-> 0,
   time_end |-> 0, connected |-> FALSE, max_eaccess |-> 0, timeout |-> 0,
   status |-> "ok", err |-> None, response |-> NoResponse,
   result |-> NoStatus, kind |-> None, wait_arg |-> NoWait,
   connect_addr |-> <<>>, hist |-> Hist0]

\* What each call has for itself, being an argument or a local variable of
\* Connect: all of it.  (With max_eaccess declared static it would not.)
PerCall_StaticBudget == (DOMAIN CallState) \ {"max_eaccess"}

PerCall == DOMAIN CallState

\* The value of variable f for the call that resumes: its own if each call
\* has one, else the one value there is.
Restored(f, cur) == IF f \in PerCall THEN other[f] ELSE cur

\* ClientChannelFactory(const std::string& endpoint_path)
Init ==
  /\ self = 1
  /\ other = CallState0
  /\ name \in Names
  /\ endpoint_path_ = GetEndpointPath(name)
  /\ timeout_ms = 0
  /\ pc = "start"
  /\ clock = 0
  /\ socket_fd = "none"
  /\ remote_sun_path = <<>>
  /\ use_timeout = FALSE
  /\ now = 0
  /\ time_end = 0
  /\ connected = FALSE
  /\ max_eaccess = 0
  /\ timeout = 0
  /\ status = "ok"
  /\ err = None
  /\ response = NoResponse
  /\ result = NoStatus
  /\ kind = None
  /\ registry = <<>>
  /\ wait_arg = NoWait
  /\ connect_addr = <<>>
  /\ hist = Hist0

\* A return statement: the result is set and socket_fd goes out of scope.
Return(res, k, h) ==
  /\ pc' = "done"
  /\ result' = res
  /\ kind' = k
  /\ socket_fd' = Destroy(socket_fd)
  /\ hist' = [h EXCEPT !.closes = @ + Closes(socket_fd)]

\* Handshake responses a peer can send.
Responses ==
  {[ret_code |-> r, file_descriptors |-> [i \in 1..n |-> EventFdNo(i)]] :
     r \in -1..(MaxFds + 1), n \in 0..MaxFds}

\* ------------------------------------------------------ Connect, by step
\* socket(AF_UNIX, SOCK_STREAM, 0) fails: return ErrorStatus(errno).
SocketFail(t, e) ==
  /\ pc = "start"
  /\ timeout_ms' = t
  /\ Return(ErrorStatus(e), "ResourceError", hist)
  /\ UNCHANGED <<factory, threads, clock, remote_sun_path, use_timeout, now, time_end,
                 connected, max_eaccess, timeout, status, err, response,
                 registry, wait_arg, connect_addr>>

\* socket() succeeds; remote, use_timeout, now, time_end, connected and
\* max_eaccess are initialised.
SocketOk(t) ==
  /\ pc = "start"
  /\ timeout_ms' = t
  /\ socket_fd' = "open"
  /\ hist' = Bump(hist, "sockets")
  /\ remote_sun_path' = Strncpy(endpoint_path_, SunPathSize)
  /\ use_timeout' = UseTimeout(t)
  /\ now' = clock
  /\ time_end' = TimeEnd(clock, t)
  /\ connected' = FALSE
  /\ max_eaccess' = InitMaxEaccess
  /\ pc' = "loop"
  /\ UNCHANGED <<factory, threads, clock, timeout, status, err, response, result,
                 kind, registry, wait_arg, connect_addr>>

\* Head of while (!connected): the remaining time and the deadline check.
CheckDeadline ==
  /\ pc = "loop"
  /\ timeout' = IF use_timeout THEN RemainingMs(time_end, now) ELSE -1
  /\ IF use_timeout /\ timeout' < 0
     THEN Return(ErrorStatus(TimeoutErrno), "Timeout", hist)
     ELSE /\ pc' = "wait"
          /\ UNCHANGED <<result, kind, socket_fd, hist>>
  /\ UNCHANGED <<factory, threads, locals, clock, now, connected, max_eaccess,
                 status, err, response, registry, wait_arg, connect_addr>>

\* status = WaitForEndpoint(endpoint_path_, timeout) succeeds after d ticks.
WaitOk(d) ==
  /\ pc = "wait"
  /\ clock' = clock + d
  /\ wait_arg' = [path |-> endpoint_path_, timeout |-> timeout]
  /\ status' = "ok"
  /\ hist' = Bump(Late(hist, d), "waits")
  /\ pc' = "connect"
  /\ UNCHANGED <<factory, threads, locals, socket_fd, now, connected, max_eaccess,
                 timeout, err, response, result, kind, registry,
                 connect_addr>>

\* WaitForEndpoint fails with e: return ErrorStatus(status.error()).
WaitFail(d, e) ==
  /\ pc = "wait"
  /\ clock' = clock + d
  /\ wait_arg' = [path |-> endpoint_path_, timeout |-> timeout]
  /\ status' = e
  /\ Return(ErrorStatus(e), "WaitError", Bump(Late(hist, d), "waits"))
  /\ UNCHANGED <<factory, threads, locals, now, connected, max_eaccess, timeout, err,
                 response, registry, connect_addr>>

\* connect() is interrupted by a signal: RETRY_EINTR calls it again.
ConnectEintr(d) ==
  /\ pc = "connect"
  /\ hist.connects < MaxConnects
  /\ hist.eintrs < MaxEintr
  /\ clock' = clock + d
  /\ connect_addr' = remote_sun_path
  /\ hist' = Bump(Late(hist, d), "eintrs")
  /\ UNCHANGED <<factory, threads, locals, pc, socket_fd, now, connected, max_eaccess,
                 timeout, status, err, response, result, kind, registry,
                 wait_arg>>

\* connect() returns 0: connected = true.
ConnectOk(d) ==
  /\ pc = "connect"
  /\ hist.connects < MaxConnects
  /\ clock' = clock + d
  /\ connect_addr' = remote_sun_path
  /\ connected' = TRUE
  /\ hist' = Bump(Late(hist, d), "connects")
  /\ pc' = "refresh"
  /\ UNCHANGED <<factory, threads, locals, socket_fd, now, max_eaccess, timeout,
                 status, err, response, result, kind, registry, wait_arg>>

\* connect() returns -1 with errno e: the errno classification.
ConnectErr(d, e) ==
  /\ pc = "connect"
  /\ hist.connects < MaxConnects
  /\ clock' = clock + d
  /\ connect_addr' = remote_sun_path
  /\ err' = e
  /\ max_eaccess' = MaxEaccessAfter(e, max_eaccess)
  /\ LET h == [Late(hist, d) EXCEPT
                 !.connects = @ + 1,
                 !.refused = @ + (IF e = "ECONNREFUSED" THEN 1 ELSE 0),
                 !.eacces = @ + (IF e = "EACCES" THEN 1 ELSE 0)]
     IN IF RetryAfterSleep(e, max_eaccess)
        THEN /\ pc' = "sleep"
             /\ hist' = h
             /\ UNCHANGED <<result, kind, socket_fd>>
        ELSE IF IsPermanent(e)
        THEN Return(ErrorStatus(e), "ConnectError", h)
        ELSE /\ pc' = "refresh"
             /\ hist' = h
             /\ UNCHANGED <<result, kind, socket_fd>>
  /\ UNCHANGED <<factory, threads, locals, now, connected, timeout, status, response,
                 registry, wait_arg>>

\* std::this_thread::sleep_for(100ms): at least 100 ms pass.
Sleep(d) ==
  /\ pc = "sleep"
  /\ clock' = clock + SleepMs * TicksPerMs + d
  /\ hist' = Bump(Late(hist, d), "sleeps")
  /\ pc' = "refresh"
  /\ UNCHANGED <<factory, threads, locals, socket_fd, now, connected, max_eaccess,
                 timeout, status, err, response, result, kind, registry,
                 wait_arg, connect_addr>>

\* if (use_timeout) now = steady_clock::now();  then the loop condition.
RefreshNow ==
  /\ pc = "refresh"
  /\ now' = IF use_timeout THEN clock ELSE now
  /\ pc' = IF LoopExits(connected) THEN "send" ELSE "loop"
  /\ UNCHANGED <<factory, threads, locals, clock, socket_fd, connected, max_eaccess,
                 timeout, status, err, response, result, kind, registry,
                 wait_arg, connect_addr, hist>>

\* status = SendData(socket_fd.Borrow(), request) succeeds.
SendOk(d) ==
  /\ pc = "send"
  /\ clock' = clock + d
  /\ status' = "ok"
  /\ hist' = Bump(Late(hist, d), "sends")
  /\ pc' = "recv"
  /\ UNCHANGED <<factory, threads, locals, socket_fd, now, connected, max_eaccess,
                 timeout, err, response, result, kind, registry, wait_arg,
                 connect_addr>>

\* SendData fails with e: return ErrorStatus(status.error()).
SendFail(d, e) ==
  /\ pc = "send"
  /\ clock' = clock + d
  /\ status' = e
  /\ Return(ErrorStatus(e), "IOError", Bump(Late(hist, d), "sends"))
  /\ UNCHANGED <<factory, threads, locals, now, connected, max_eaccess, timeout, err,
                 response, registry, wait_arg, connect_addr>>

\* status = ReceiveData(socket_fd.Borrow(), &response) succeeds with r.
RecvOk(d, r) ==
  /\ pc = "recv"
  /\ clock' = clock + d
  /\ status' = "ok"
  /\ response' = r
  /\ hist' = Bump(Late(hist, d), "recvs")
  /\ pc' = "validate"
  /\ UNCHANGED <<factory, threads, locals, socket_fd, now, connected, max_eaccess,
                 timeout, err, result, kind, registry, wait_arg,
                 connect_addr>>

\* ReceiveData fails with e: return ErrorStatus(status.error()).
RecvFail(d, e) ==
  /\ pc = "recv"
  /\ clock' = clock + d
  /\ status' = e
  /\ Return(ErrorStatus(e), "IOError", Bump(Late(hist, d), "recvs"))
  /\ UNCHANGED <<factory, threads, locals, now, connected, max_eaccess, timeout, err,
                 response, registry, wait_arg, connect_addr>>

\* int ref = response.ret_code; the bounds test; return ErrorStatus(EIO).
Validate ==
  /\ pc = "validate"
  /\ IF RefRejected(response.ret_code, Len(response.file_descriptors))
     THEN Return(ErrorStatus(ProtocolErrno), "ProtocolError", hist)
     ELSE /\ pc' = "extract"
          /\ UNCHANGED <<result, kind, socket_fd, hist>>
  /\ UNCHANGED <<factory, threads, locals, clock, now, connected, max_eaccess,
                 timeout, status, err, response, registry, wait_arg,
                 connect_addr>>

\* CreateHandle(std::move(socket_fd), std::move(event_fd)) and the return
\* of the channel built on it.
Register(event_fd, h) ==
  /\ registry' = Append(registry,
                         [socket |-> SocketFdOf(self), event |-> event_fd])
  /\ socket_fd' = "moved"
  /\ pc' = "done"
  /\ result' = OkStatus
  /\ kind' = "Connected"
  /\ hist' = h

\* event_fd = std::move(response.file_descriptors[ref]) with ref inside the
\* vector, then the registration.
ExtractInBounds ==
  /\ pc = "extract"
  /\ response.ret_code < Len(response.file_descriptors)
  /\ Register(response.file_descriptors[response.ret_code + 1],
              Bump(hist, "indexed"))
  /\ UNCHANGED <<factory, threads, locals, clock, now, connected, max_eaccess,
                 timeout, status, err, response, wait_arg, connect_addr>>

\* response.file_descriptors[ref] with ref == size(): undefined behaviour.
\* The read faults, or it yields whatever lies behind the vector's elements
\* and the call carries on with it.
ExtractPastEndFault ==
  /\ pc = "extract"
  /\ response.ret_code >= Len(response.file_descriptors)
  /\ pc' = "crashed"
  /\ hist' = Bump(Bump(hist, "indexed"), "oob")
  /\ UNCHANGED <<factory, threads, locals, clock, socket_fd, now, connected,
                 max_eaccess, timeout, status, err, response, result, kind,
                 registry, wait_arg, connect_addr>>

ExtractPastEndGarbage(g) ==
  /\ pc = "extract"
  /\ response.ret_code >= Len(response.file_descriptors)
  /\ Register(g, Bump(Bump(hist, "indexed"), "oob"))
  /\ UNCHANGED <<factory, threads, locals, clock, now, connected, max_eaccess,
                 timeout, status, err, response, wait_arg, connect_addr>>

Next ==
  \/ \E t \in Timeouts, e \in SocketErrnos : SocketFail(t, e)
  \/ \E t \in Timeouts : SocketOk(t)
  \/ CheckDeadline
  \/ \E d \in Elapsed : WaitOk(d)
  \/ \E d \in Elapsed, e \in WaitErrnos : WaitFail(d, e)
  \/ \E d \in Elapsed : ConnectEintr(d)
  \/ \E d \in Elapsed : ConnectOk(d)
  \/ \E d \in Elapsed, e \in ConnectErrnos : ConnectErr(d, e)
  \/ \E d \in Elapsed : Sleep(d)
  \/ RefreshNow
  \/ \E d \in Elapsed : SendOk(d)
  \/ \E d \in Elapsed, e \in IoErrnos : SendFail(d, e)
  \/ \E d \in Elapsed, r \in Responses : RecvOk(d, r)
  \/ \E d \in Elapsed, e \in IoErrnos : RecvFail(d, e)
  \/ Validate
  \/ ExtractInBounds
  \/ ExtractPastEndFault
  \/ \E g \in GarbageFds : ExtractPastEndGarbage(g)

Spec == Init /\ [][Next]_vars

\* ------------------------------------------------- two concurrent calls
\* The thread running Connect is preempted and the thread of the other
\* Connect call runs on: each thread has its own arguments and locals; the
\* factory, the clock and the ChannelManager are the same for both.
Switch ==
  /\ pc # "crashed"
  /\ other.pc \notin {"done", "crashed"}
  /\ self' = 3 - self
  /\ other' = CallState
  /\ timeout_ms' = Restored("timeout_ms", timeout_ms)
  /\ pc' = Restored("pc", pc)
  /\ socket_fd' = Restored("socket_fd", socket_fd)
  /\ remote_sun_path' = Restored("remote_sun_path", remote_sun_path)
  /\ use_timeout' = Restored("use_timeout", use_timeout)
  /\ now' = Restored("now", now)
  /\ time_end' = Restored("time_end", time_end)
  /\ connected' = Restored("connected", connected)
  /\ max_eaccess' = Restored("max_eaccess", max_eaccess)
  /\ timeout' = Restored("timeout", timeout)
  /\ status' = Restored("status", status)
  /\ err' = Restored("err", err)
  /\ response' = Restored("response", response)
  /\ result' = Restored("result", result)
  /\ kind' = Restored("kind", kind)
  /\ wait_arg' = Restored("wait_arg", wait_arg)
  /\ connect_addr' = Restored("connect_addr", connect_addr)
  /\ hist' = Restored("hist", hist)
  /\ UNCHANGED <<factory, clock, registry>>

\* Timeouts, results and responses seen by the two calls.
Timeouts2 == {-1, 150}
ConnectErrnos2 == {"EACCES"}
Responses2 == {[ret_code |-> 0, file_descriptors |-> <<EventFdNo(1)>>]}

Init2 == Init /\ name = <<"a">>

Next2 ==
  \/ \E t \in Timeouts2 : SocketOk(t)
  \/ CheckDeadline
  \/ WaitOk(0)
  \/ ConnectOk(0)
  \/ \E e \in ConnectErrnos2 : ConnectErr(0, e)
  \/ Sleep(0)
  \/ RefreshNow
  \/ SendOk(0)
  \/ \E r \in Responses2 : RecvOk(0, r)
  \/ Validate
  \/ ExtractInBounds
  \/ Switch

SpecTwo == Init2 /\ [][Next2]_vars

TypeOK ==
  /\ pc \in {"start", "loop", "wait", "connect", "sleep", "refresh", "send",
             "recv", "validate", "extract", "done", "crashed"}
  /\ socket_fd \in {"none", "open", "closed", "moved"}
  /\ timeout_ms \in Timeouts \cup {0}
  /\ max_eaccess \in -1..InitMaxEaccess

\* ------------------------------------------------------- shared notions
\* The response has passed the bounds test (or been rejected by it).
PastValidation ==
  \/ pc \in {"extract", "crashed"}
  \/ pc = "done" /\ kind \in {"ProtocolError", "Connected"}

\* return_code lies in [0, len(descriptors)).
InRange(r) == 0 <= r.ret_code /\ r.ret_code < Len(r.file_descriptors)

\* A connect(2) result has just been classified in this step.
Classified == pc = "connect" /\ hist'.connects = hist.connects + 1
ClassifiedErr(e) == Classified /\ ~connected' /\ err' = e

\* --------------------------------------------------------------- claims
\* C1: a response whose return_code is outside [0, len(descriptors)) makes
\* Connect return ProtocolError without indexing the descriptor sequence
\* and without calling the registry.
C1_OutOfRangeRejected ==
  (PastValidation /\ ~InRange(response)) =>
    /\ pc = "done"
    /\ kind = "ProtocolError"
    /\ hist.indexed = 0
    /\ registry = <<>>

\* C2: at most InitMaxEaccess EACCES results are retried in one call, each
\* by way of the sleep, whatever other results come in between; the next
\* EACCES makes Connect return ErrorStatus(EACCES) at once, without a sleep.
C2_EaccesBudget ==
  /\ [](hist.eacces <= InitMaxEaccess + 1)
  /\ [][ClassifiedErr("EACCES") =>
          IF hist.eacces < InitMaxEaccess
          THEN pc' = "sleep" /\ result' = NoStatus
          ELSE /\ pc' = "done"
               /\ kind' = "ConnectError"
               /\ result' = ErrorStatus("EACCES")
               /\ hist'.sleeps = hist.sleeps
               /\ hist'.waits = hist.waits]_vars
  /\ [][pc = "sleep" => pc' = "refresh" /\ hist'.sleeps = hist.sleeps + 1]_vars

C2_Witness ==
  /\ pc = "done"
  /\ kind = "ConnectError"
  /\ hist.eacces = InitMaxEaccess + 1
  /\ hist.sleeps = InitMaxEaccess
  /\ hist.connects > hist.eacces

\* C3 as stated: a bounded call that returns after its deadline, not having
\* succeeded before it, returns exactly Timeout.
C3_TimeoutUnlessSuccessBeforeDeadline ==
  (pc = "done" /\ hist.sockets = 1 /\ timeout_ms >= 0 /\ clock > time_end) =>
    result = ErrorStatus(TimeoutErrno)

\* C3, amended: in a bounded call, an iteration that starts a whole
\* millisecond or more after the deadline returns Timeout there, without
\* another wait or connect, and Timeout is returned nowhere else; a wait
\* error, a permanent connect error, a handshake error or a success that
\* comes first is the result instead.
C3_TimeoutAtLoopHead ==
  /\ [][(pc = "loop" /\ timeout_ms >= 0 /\ now - time_end >= TicksPerMs) =>
          /\ pc' = "done"
          /\ kind' = "Timeout"
          /\ result' = ErrorStatus("ETIMEDOUT")
          /\ hist'.waits = hist.waits
          /\ hist'.connects = hist.connects]_vars
  /\ [][(kind' = "Timeout" /\ kind # "Timeout") =>
          pc = "loop" /\ timeout_ms >= 0 /\ now - time_end >= TicksPerMs]_vars

C3_Witness ==
  /\ pc = "done"
  /\ kind = "Timeout"
  /\ timeout_ms >= 0
  /\ hist.connects >= 1
  /\ now - time_end >= TicksPerMs

\* C4: a call with a negative timeout never returns from the deadline
\* check, whatever the waiter and connect report and however late it gets.
C4_UnboundedNeverTimesOut ==
  (pc # "start" /\ timeout_ms < 0) => kind # "Timeout"

C4_Witness ==
  /\ timeout_ms < 0
  /\ pc = "loop"
  /\ hist.sleeps >= 2
  /\ clock >= 2 * SleepMs * TicksPerMs
  /\ hist.connects >= 3

\* C5: every ECONNREFUSED result is retried and leaves max_eaccess alone;
\* the retry goes through the sleep (at least SleepMs), the refresh of now,
\* the deadline check and a new WaitForEndpoint call, in that order, before
\* the next connect.
C5_RefusedRetried ==
  /\ [][ClassifiedErr("ECONNREFUSED") =>
          /\ pc' = "sleep"
          /\ max_eaccess' = max_eaccess
          /\ result' = NoStatus]_vars
  /\ [][pc = "sleep" =>
          /\ pc' = "refresh"
          /\ clock' >= clock + SleepMs * TicksPerMs
          /\ hist'.sleeps = hist.sleeps + 1]_vars
  /\ [][(pc = "refresh" /\ ~connected) =>
          pc' = "loop" /\ (timeout_ms >= 0 => now' = clock)]_vars
  /\ [][pc = "loop" =>
          \/ pc' = "wait"
          \/ pc' = "done" /\ kind' = "Timeout" /\ timeout_ms >= 0]_vars
  /\ [][pc = "wait" =>
          /\ hist'.waits = hist.waits + 1
          /\ pc' \in {"connect", "done"}]_vars
  /\ [][Classified => hist.waits = hist.connects + 1]_vars

C5_Witness ==
  /\ pc = "connect"
  /\ hist.refused > InitMaxEaccess + 1
  /\ hist.refused = hist.connects
  /\ hist.sleeps = hist.refused
  /\ max_eaccess = InitMaxEaccess

\* C6: an ENOENT or ENOTDIR result leaves max_eaccess alone, causes no
\* sleep and no return: the next step is the end of the iteration, and the
\* one after it the next deadline check.
C6_MissingEndpointRetriedAtOnce ==
  /\ [][(ClassifiedErr("ENOENT") \/ ClassifiedErr("ENOTDIR")) =>
          /\ pc' = "refresh"
          /\ max_eaccess' = max_eaccess
          /\ hist'.sleeps = hist.sleeps
          /\ clock' - clock < SleepMs * TicksPerMs
          /\ result' = NoStatus]_vars
  /\ [][(pc = "refresh" /\ ~connected) =>
          pc' = "loop" /\ hist'.sleeps = hist.sleeps /\ clock' = clock]_vars

C6_Witness ==
  /\ pc = "loop"
  /\ err = "ENOTDIR"
  /\ max_eaccess = 0
  /\ hist.eacces = InitMaxEaccess
  /\ hist.connects = InitMaxEaccess + 2
  /\ hist.sleeps = InitMaxEaccess

\* C7: one socket descriptor is created per call and serves every connect
\* attempt; a call that returns an error after creating it has closed it
\* exactly once and registered nothing; a call that returns success has
\* not closed it and has moved it into the registry exactly once.
C7_SocketOwnership ==
  /\ hist.sockets <= 1
  /\ hist.closes <= 1
  /\ (pc \notin {"start", "done", "crashed"} =>
        /\ hist.sockets = 1
        /\ socket_fd = "open"
        /\ hist.closes = 0
        /\ registry = <<>>)
  /\ (pc = "done" /\ kind = "ResourceError" =>
        hist.sockets = 0 /\ socket_fd = "none" /\ hist.closes = 0)
  /\ (pc = "done" /\ ~result.ok /\ kind # "ResourceError" =>
        /\ hist.sockets = 1
        /\ socket_fd = "closed"
        /\ hist.closes = 1
        /\ registry = <<>>)
  /\ (pc = "done" /\ result.ok =>
        /\ hist.sockets = 1
        /\ socket_fd = "moved"
        /\ hist.closes = 0
        /\ Len(registry) = 1
        /\ registry[1].socket = SocketFdNo)

C7_Witness ==
  /\ pc = "done"
  /\ kind = "ConnectError"
  /\ hist.connects >= 3
  /\ socket_fd = "closed"
  /\ hist.closes = 1
  /\ hist.sockets = 1

\* C8: CreateHandle is called at most once, exactly in the calls that end
\* in success after a connect, a send, a receive and a response whose
\* return_code indexes its descriptors, and it is given the connected
\* socket and the descriptor at index return_code of the response.
C8_RegisteredOnlyOnValidatedSuccess ==
  /\ Len(registry) <= 1
  /\ (Len(registry) = 1 <=> (pc = "done" /\ result.ok))
  /\ (Len(registry) = 1 =>
        /\ connected
        /\ hist.sends = 1
        /\ hist.recvs = 1
        /\ InRange(response)
        /\ registry[1] =
             [socket |-> SocketFdNo,
              event |-> response.file_descriptors[response.ret_code + 1]])

\* C9 as stated: the error value of a ProtocolError differs from every
\* error value a wait, connect, send or receive failure can produce.
C9_ProtocolErrorValueDistinct ==
  (pc = "done" /\ kind = "ProtocolError") =>
    result.error \notin (WaitErrnos \cup ConnectErrnos \cup IoErrnos)

\* C9, amended: a ProtocolError is reported in the errno domain like every
\* other failure, as EIO; every error Connect returns is an errno, and the
\* value of a ProtocolError is one that a failed wait, send or receive can
\* return as well.
C9_ProtocolErrorIsEio ==
  /\ (pc = "done" /\ kind = "ProtocolError" =>
        /\ result = [ok |-> FALSE, error |-> "EIO"]
        /\ result.error \in WaitErrnos \cap IoErrnos)
  /\ (pc = "done" /\ ~result.ok =>
        result.error \in SocketErrnos \cup WaitErrnos \cup ConnectErrnos
                           \cup IoErrnos \cup {"ETIMEDOUT"})

C9_Witness ==
  /\ pc = "done"
  /\ kind = "ProtocolError"
  /\ ~InRange(response)
  /\ result.error = "EIO"

\* C10: the endpoint address is the empty path for the empty name, the
\* name itself when it starts with '/', and otherwise the root path, a '/'
\* and the name; no step of Connect changes it.
C10_Resolve ==
  /\ [](LET root == Len(GetRootEndpointPath) IN
        /\ (name = <<>> => endpoint_path_ = <<>>)
        /\ (name # <<>> /\ name[1] = "/" => endpoint_path_ = name)
        /\ (name # <<>> /\ name[1] # "/" =>
              /\ Len(endpoint_path_) = root + 1 + Len(name)
              /\ SubSeq(endpoint_path_, 1, root) = GetRootEndpointPath
              /\ endpoint_path_[root + 1] = "/"
              /\ SubSeq(endpoint_path_, root + 2, Len(endpoint_path_)) = name))
  /\ [][endpoint_path_' = endpoint_path_ /\ name' = name]_vars

C10_Witness ==
  /\ pc = "done"
  /\ result.ok
  /\ name = <<"a">>
  /\ Len(endpoint_path_) = Len(GetRootEndpointPath) + 2
  /\ hist.connects >= 2

\* The resolved path does not fit sockaddr_un::sun_path with its terminator.
PathTooLong == Len(endpoint_path_) > SunPathSize - 1

\* C11: for an endpoint path longer than the capacity of sun_path, Connect
\* never returns success (here: not even on a handshake whose response is
\* read within bounds), and what it stores in sun_path stays within the
\* buffer.
C11_LongPathNeverSucceeds ==
  PathTooLong =>
    /\ ~(pc = "done" /\ result.ok /\ hist.oob = 0)
    /\ Len(remote_sun_path) <= SunPathSize - 1

\* C12: the sleeps of a call are as many as its ECONNREFUSED results plus
\* its EACCES results within the budget (one of them still to come while
\* the call stands before the sleep); a call that succeeds with one refused
\* connect followed by an accepted one has slept once, waited twice and
\* connected twice.
C12_SleepCount ==
  LET inBudget == IF hist.eacces <= InitMaxEaccess
                  THEN hist.eacces ELSE InitMaxEaccess
      pending == IF pc = "sleep" THEN 1 ELSE 0
  IN /\ hist.sleeps + pending = hist.refused + inBudget
     /\ (pc = "done" /\ result.ok /\ hist.refused = 1 /\ hist.connects = 2 =>
           /\ hist.sleeps = 1
           /\ hist.waits = 2
           /\ clock >= SleepMs * TicksPerMs)

C12_Witness ==
  /\ pc = "done"
  /\ result.ok
  /\ timeout_ms > SleepMs
  /\ hist.refused = 1
  /\ hist.connects = 2
  /\ hist.sleeps = 1
  /\ hist.waits = 2
  /\ clock <= time_end

\* C20: whenever connect(2) has been called, the address it was called on
\* is the path the endpoint waiter was called with, for a path of any
\* length.
C20_WaitAndConnectSamePath ==
  hist.connects + hist.eintrs >= 1 =>
    /\ wait_arg.path = endpoint_path_
    /\ connect_addr = wait_arg.path

\* connect(2) is called in this step (interrupted or not).
ConnectCalled ==
  hist'.connects # hist.connects \/ hist'.eintrs # hist.eintrs

\* errno values the loop retries on.
RetriedErrnos == {"ECONNREFUSED", "EACCES", "ENOENT", "ENOTDIR"}

\* C14: connect(2) is only called after WaitForEndpoint succeeded in the
\* same iteration; the handshake starts only once a connect succeeded and
\* runs at most once; after Connect returned nothing more happens.
C14_StateMachine ==
  /\ [][ConnectCalled =>
          /\ pc = "connect"
          /\ status = "ok"
          /\ hist.waits = hist.connects + 1]_vars
  /\ [][(pc' = "connect" /\ pc # "connect") =>
          /\ pc = "wait"
          /\ status' = "ok"
          /\ hist'.waits = hist.waits + 1]_vars
  /\ [][hist'.sends # hist.sends =>
          /\ pc = "send"
          /\ connected
          /\ hist.connects >= 1
          /\ hist.sends = 0
          /\ hist.recvs = 0]_vars
  /\ [][hist'.recvs # hist.recvs =>
          pc = "recv" /\ connected /\ hist.sends = 1 /\ hist.recvs = 0]_vars
  /\ [][connected' # connected =>
          pc = "connect" /\ connected' /\ pc' = "refresh"]_vars
  /\ [][pc # "done"]_vars

C14_Witness ==
  /\ pc = "done"
  /\ result.ok
  /\ hist.connects >= 3
  /\ hist.waits = hist.connects
  /\ hist.sleeps >= 1
  /\ hist.sends = 1
  /\ hist.recvs = 1

\* C15: an error of WaitForEndpoint is returned by Connect as it is, in the
\* same step: no connect, sleep, send or registry call follows, the socket
\* is closed, and max_eaccess has no part in it.
C15_WaitErrorPropagated ==
  [][(pc = "wait" /\ status' # "ok") =>
       /\ status' \in WaitErrnos
       /\ pc' = "done"
       /\ kind' = "WaitError"
       /\ result' = [ok |-> FALSE, error |-> status']
       /\ hist'.connects = hist.connects
       /\ hist'.sleeps = hist.sleeps
       /\ hist'.sends = 0
       /\ registry' = <<>>
       /\ socket_fd' = "closed"
       /\ hist'.closes = 1
       /\ max_eaccess' = max_eaccess]_vars

C15_Witness ==
  /\ pc = "done"
  /\ kind = "WaitError"
  /\ result.error = "ETIMEDOUT"
  /\ max_eaccess = 0
  /\ hist.waits = hist.connects + 1
  /\ hist.connects > InitMaxEaccess

\* C16: a connect error other than ECONNREFUSED, EACCES, ENOENT, ENOTDIR is
\* returned at once as it is, with no sleep, wait, connect or handshake
\* after it; among the four, all are retried except EACCES with the budget
\* used up; an interrupted connect is called again and changes nothing.
C16_OtherErrnoIsPermanent ==
  /\ [][(Classified /\ ~connected') =>
          IF err' \notin RetriedErrnos
          THEN /\ pc' = "done"
               /\ kind' = "ConnectError"
               /\ result' = [ok |-> FALSE, error |-> err']
               /\ hist'.sleeps = hist.sleeps
               /\ hist'.waits = hist.waits
               /\ hist'.sends = 0
               /\ socket_fd' = "closed"
          ELSE (pc' = "done") <=>
                 (err' = "EACCES" /\ hist.eacces >= InitMaxEaccess)]_vars
  /\ [][(pc = "connect" /\ hist'.connects = hist.connects) =>
          /\ pc' = "connect"
          /\ hist'.eintrs = hist.eintrs + 1
          /\ hist'.sleeps = hist.sleeps
          /\ hist'.waits = hist.waits
          /\ max_eaccess' = max_eaccess
          /\ result' = result]_vars

C16_Witness ==
  /\ pc = "done"
  /\ kind = "ConnectError"
  /\ result.error = "EPERM"
  /\ hist.connects >= 3
  /\ hist.eintrs >= 1
  /\ hist.waits = hist.connects

Handshaking == pc \in {"send", "recv", "validate", "extract"}

\* C17: the request is sent once and the response received at most once,
\* after the send succeeded; a failed send or receive makes Connect return
\* that error in the same step, with the socket closed and nothing
\* registered, and the handshake never leads back into the connect loop.
C17_SingleExchange ==
  /\ [](/\ hist.sends <= 1
        /\ hist.recvs <= 1
        /\ (hist.recvs = 1 => hist.sends = 1)
        /\ (pc \in {"recv", "validate", "extract"} => hist.sends = 1)
        /\ (pc = "done" /\ kind \in {"ProtocolError", "Connected"} =>
              hist.sends = 1 /\ hist.recvs = 1))
  /\ [][pc = "send" =>
          /\ hist'.sends = 1
          /\ hist'.recvs = 0
          /\ \/ pc' = "recv" /\ status' = "ok"
             \/ /\ pc' = "done"
                /\ kind' = "IOError"
                /\ status' \in IoErrnos
                /\ result' = [ok |-> FALSE, error |-> status']
                /\ socket_fd' = "closed"
                /\ hist'.closes = 1
                /\ registry' = <<>>]_vars
  /\ [][pc = "recv" =>
          /\ hist'.sends = 1
          /\ hist'.recvs = 1
          /\ \/ pc' = "validate" /\ status' = "ok"
             \/ /\ pc' = "done"
                /\ kind' = "IOError"
                /\ status' \in IoErrnos
                /\ result' = [ok |-> FALSE, error |-> status']
                /\ socket_fd' = "closed"
                /\ hist'.closes = 1
                /\ registry' = <<>>]_vars
  /\ [][Handshaking =>
          /\ pc' \in {"recv", "validate", "extract", "done", "crashed"}
          /\ hist'.waits = hist.waits
          /\ hist'.connects = hist.connects
          /\ hist'.sleeps = hist.sleeps]_vars

C17_Witness ==
  /\ pc = "done"
  /\ kind = "IOError"
  /\ hist.sends = 1
  /\ hist.recvs = 1
  /\ result.error = "EPIPE"
  /\ socket_fd = "closed"
  /\ hist.connects >= 2

\* C18: time_end is set when the call starts and never afterwards; a
\* bounded call hands the waiter the time left until time_end as of now,
\* in whole milliseconds (0 when time_end lies less than a millisecond
\* back), a value between 0 and timeout_ms that never grows from one wait
\* to the next; an unbounded call hands it -1.
C18_RemainingBudget ==
  /\ [][pc # "start" =>
          time_end' = time_end /\ timeout_ms' = timeout_ms]_vars
  /\ [][pc = "wait" =>
          LET x == wait_arg'.timeout
              left == time_end - now
          IN IF timeout_ms >= 0
             THEN /\ 0 <= x
                  /\ x <= timeout_ms
                  /\ (left >= 0 =>
                        x * TicksPerMs <= left /\ left < (x + 1) * TicksPerMs)
                  /\ (left < 0 => x = 0 /\ -left < TicksPerMs)
                  /\ (hist.waits >= 1 => x <= wait_arg.timeout)
             ELSE x = -1]_vars

C18_Witness ==
  /\ pc = "connect"
  /\ timeout_ms > SleepMs
  /\ hist.waits = 2
  /\ hist.sleeps = 1
  /\ wait_arg.timeout >= 0
  /\ wait_arg.timeout <= timeout_ms - SleepMs

\* C19: Timeout is returned only by the deadline check of an iteration
\* that follows a retried connect failure: never before the first wait,
\* and never once a connect has succeeded, however late it is by then.
C19_TimeoutOnlyAfterRetry ==
  /\ [][(kind' = "Timeout" /\ kind # "Timeout") =>
          /\ pc = "loop"
          /\ ~connected
          /\ hist.waits >= 1
          /\ hist.connects >= 1
          /\ hist.waits = hist.connects
          /\ err \in RetriedErrnos]_vars
  /\ [](pc = "done" /\ timeout_ms >= 0 /\ kind # "ResourceError" =>
          hist.waits >= 1)
  /\ [](connected => kind # "Timeout")

C19_Witness ==
  /\ pc = "done"
  /\ result.ok
  /\ timeout_ms = 0
  /\ now - time_end >= TicksPerMs
  /\ hist.waits >= 1

\* The state of call i, running or not.
View(i) == IF i = self THEN CallState ELSE other

Calls == {1, 2}

\* C13: two concurrent calls share nothing but the registry: a step of one
\* call, and a switch between them, leave the arguments, locals and result
\* of the other call as they are; each call's budget counts its own EACCES
\* results only and each call fails on its own sixth; each call has its own
\* socket, closed when that call fails and registered, once, when that
\* call succeeds.
C13_CallsIndependent ==
  /\ [][\A i \in Calls :
          (i # self \/ self' # self) => View(i)' = View(i)]_vars
  /\ [](\A i \in Calls :
          LET v == View(i) IN
          /\ (v.pc # "start" =>
                v.max_eaccess = InitMaxEaccess - v.hist.eacces)
          /\ v.hist.eacces <= InitMaxEaccess + 1
          /\ (v.pc = "done" /\ v.kind = "ConnectError" /\ v.err = "EACCES" =>
                v.hist.eacces = InitMaxEaccess + 1)
          /\ (v.pc = "sleep" /\ v.err = "EACCES" =>
                v.hist.eacces <= InitMaxEaccess)
          /\ (v.pc \notin {"start", "done"} => v.socket_fd = "open")
          /\ (v.pc = "done" /\ ~v.result.ok =>
                /\ v.socket_fd = "closed"
                /\ \A k \in 1..Len(registry) :
                     registry[k].socket # SocketFdOf(i))
          /\ (v.pc = "done" /\ v.result.ok =>
                /\ v.socket_fd = "moved"
                /\ \E k \in 1..Len(registry) :
                     registry[k].socket = SocketFdOf(i)))
  /\ [](Len(registry) =
          Cardinality({i \in Calls :
                         View(i).pc = "done" /\ View(i).result.ok}))

\* Both calls are under way: call 1 stands before the sleep after its fifth
\* EACCES, call 2, with another timeout, before the sleep after its first.
C13_Witness ==
  /\ View(1).pc = "sleep"
  /\ View(1).hist.eacces = InitMaxEaccess
  /\ View(1).max_eaccess = 0
  /\ View(2).pc = "sleep"
  /\ View(2).hist.eacces = 1
  /\ View(2).max_eaccess = InitMaxEaccess - 1
  /\ View(2).timeout_ms # View(1).timeout_ms
  /\ View(2).time_end # View(1).time_end
====
